---- MODULE Spec2Model ----
(***************************************************************************)
(* Model of utils/get_data.py: the Billboard top-ten scraper.              *)
(*                                                                         *)
(* Text is modelled as a sequence of tokens.  A token is one character     *)
(* ("7", "(", "\"", " ", ...) or one of the fixed words the code's regular *)
(* expressions and the date parser treat as a unit ("Singles from ",       *)
(* "January", the URL prefix).  Optional values (NaN, NaT, pd.NA, None)    *)
(* are sequences of length 0 or 1: None is <<>>, Some(v) is <<v>>.         *)
(***************************************************************************)
EXTENDS Integers, Sequences, FiniteSets, TLC

VARIABLES pc, caller, urls, i, year, table, df, all_data, result,
          saved, file, fetchLog, exc, rowsServed

vars == <<pc, caller, urls, i, year, table, df, all_data, result,
          saved, file, fetchLog, exc, rowsServed>>

(***************************************************************************)
(* Bounds of the model.                                                    *)
(***************************************************************************)
\* the longest urls list handed to scrape_data
MaxUrls == 2
\* the number of table rows the network serves during one run, all pages together
MaxRows == 3
\* the longest raw "Single Name" cell of SpecCell
MaxCellLen == 4

None == <<>>
Some(v) == <<v>>

(***************************************************************************)
(* Text helpers: Python's str / re on token sequences.                     *)
(***************************************************************************)
Digits == {"0", "1", "2", "3", "4", "5", "6", "7", "8", "9"}

IsDigit(c) == c \in Digits

DigitVal(c) ==
  CASE c = "0" -> 0 [] c = "1" -> 1 [] c = "2" -> 2 [] c = "3" -> 3
    [] c = "4" -> 4 [] c = "5" -> 5 [] c = "6" -> 6 [] c = "7" -> 7
    [] c = "8" -> 8 [] c = "9" -> 9

DigitChar(n) ==
  CASE n = 0 -> "0" [] n = 1 -> "1" [] n = 2 -> "2" [] n = 3 -> "3"
    [] n = 4 -> "4" [] n = 5 -> "5" [] n = 6 -> "6" [] n = 7 -> "7"
    [] n = 8 -> "8" [] n = 9 -> "9"

\* int(s) for a string of decimal digits
RECURSIVE ToInt(_)
ToInt(s) ==
  IF s = <<>> THEN 0
  ELSE 10 * ToInt(SubSeq(s, 1, Len(s) - 1)) + DigitVal(s[Len(s)])

\* str(n) for n >= 0
RECURSIVE ToStr(_)
ToStr(n) ==
  IF n < 10 THEN <<DigitChar(n)>>
  ELSE ToStr(n \div 10) \o <<DigitChar(n % 10)>>

AllDigits(s) == \A k \in 1..Len(s) : IsDigit(s[k])

\* the positions where token c occurs in s
Positions(s, c) == {k \in 1..Len(s) : s[k] = c}

Min(S) == CHOOSE x \in S : \A y \in S : x <= y
Max(S) == CHOOSE x \in S : \A y \in S : x >= y

\* sep.join(parts)
RECURSIVE Join(_, _)
Join(parts, sep) ==
  IF parts = <<>> THEN <<>>
  ELSE IF Len(parts) = 1 THEN parts[1]
  ELSE parts[1] \o sep \o Join(Tail(parts), sep)

\* s.strip(): leading and trailing whitespace removed
RECURSIVE Strip(_)
Strip(s) ==
  IF s = <<>> THEN s
  ELSE IF s[1] = " " THEN Strip(Tail(s))
  ELSE IF s[Len(s)] = " " THEN Strip(SubSeq(s, 1, Len(s) - 1))
  ELSE s

\* the end of a match of \[\d+\] starting at position p of s, or 0
CitationEnd(s, p) ==
  IF s[p] # "[" THEN 0
  ELSE LET ends == {q \in (p + 2)..Len(s) :
                      /\ s[q] = "]"
                      /\ \A k \in (p + 1)..(q - 1) : IsDigit(s[k])}
       IN IF ends = {} THEN 0 ELSE Min(ends)

\* re.sub(r'\[\d+\]', '', s)
RECURSIVE RemoveCitations(_)
RemoveCitations(s) ==
  IF s = <<>> THEN s
  ELSE LET q == CitationEnd(s, 1)
       IN IF q > 0 THEN RemoveCitations(SubSeq(s, q + 1, Len(s)))
          ELSE <<s[1]>> \o RemoveCitations(Tail(s))

\* re.sub(r'\(.*\)', '', s): the greedy match runs from the first "(" that has a
\* ")" after it to the last ")" of the text
RemoveParens(s) ==
  LET opens == Positions(s, "(")
      closes == Positions(s, ")")
  IN IF opens = {} \/ closes = {} \/ Max(closes) < Min(opens) THEN s
     ELSE SubSeq(s, 1, Min(opens) - 1) \o SubSeq(s, Max(closes) + 1, Len(s))

\* s.split('"')
RECURSIVE Split(_)
Split(s) ==
  LET qs == Positions(s, "\"")
  IN IF qs = {} THEN <<s>>
     ELSE <<SubSeq(s, 1, Min(qs) - 1)>> \o Split(SubSeq(s, Min(qs) + 1, Len(s)))

\* StrGet1 with the index off by one: Series.str[0]
StrGet0(parts) == IF Len(parts) >= 1 THEN Some(parts[1]) ELSE None

\* Series.str[k] with k = 1: the second element, NaN when there is none
StrGet1(parts) == IF Len(parts) >= 2 THEN Some(parts[2]) ELSE None

\* ExtractDigits with a default in place of NaN
ExtractDigitsOrZero(s) ==
  LET ds == {k \in 1..Len(s) : IsDigit(s[k])}
  IN IF ds = {} THEN Some(<<"0">>)
     ELSE LET a == Min(ds)
              b == Max({k \in a..Len(s) : \A j \in a..k : IsDigit(s[j])})
          IN Some(SubSeq(s, a, b))

\* Series.str.extract(r'(\d+)'): the first maximal run of digits, NaN when none
ExtractDigits(s) ==
  LET ds == {k \in 1..Len(s) : IsDigit(s[k])}
  IN IF ds = {} THEN None
     ELSE LET a == Min(ds)
              b == Max({k \in a..Len(s) : \A j \in a..k : IsDigit(s[j])})
          IN Some(SubSeq(s, a, b))

(***************************************************************************)
(* The inputs: URLs and the rows of the pages' tables.                     *)
(***************************************************************************)
BASE_URL == <<"https://en.wikipedia.org/wiki/Lists_of_Billboard_Hot_100_top-ten_singles">>

LinkPrefix == "https://en.wikipedia.org/wiki/List_of_Billboard_Hot_100_top-ten_singles_in_"

PageUrl(y) == <<LinkPrefix>> \o ToStr(y)

\* a link that passes get_links' prefix test and does not end in four digits
AnchorUrl == <<LinkPrefix, "2", "0", "2", "4", "#", "a">>

PageYears == {2023, 2024}

Urls == {PageUrl(y) : y \in PageYears} \cup {AnchorUrl}

SeqsUpTo(S, n) == UNION {[1..k -> S] : k \in 0..n}

IsInjective(s) == \A a, b \in 1..Len(s) : s[a] = s[b] => a = b

UrlLists == SeqsUpTo(Urls, MaxUrls)

\* the text of a sentinel header cell
SentinelText(y) == <<"Singles from ">> \o ToStr(y)

\* a <th colspan="7"> sentinel, turned into <td colspan="7">: read_html repeats the
\* cell's text in each of the columns it spans
MarkerRow(y) == [k \in 1..7 |-> SentinelText(y)]

\* data rows: Top Ten Entry Date, Single Name, Artist(s), Peak, Peak Date,
\* Weeks in Top Ten, Ref
RowA ==
  << <<"January", " ", "6">>,
     <<"\"", "A", "\"", "[", "1", "]">>,
     <<"X">>,
     <<"3">>,
     <<"January", " ", "2", "0", " ", "(", "x", ")", "[", "1", "]">>,
     <<"5", " ", "w">>,
     <<"[", "1", "]">> >>

RowB ==
  << <<"January", " ", "1", "3", "[", "2", "]">>,
     <<"\"", "B">>,
     <<"Y">>,
     <<"1", "0", "[", "2", "]">>,
     <<"T", "B", "A">>,
     <<"1", "2">>,
     <<"[", "2", "]">> >>

\* a row whose "Weeks in Top Ten" cell holds no digit
RowNoWeeks ==
  << <<"February", " ", "3">>,
     <<"C">>,
     <<"Z">>,
     <<"2">>,
     <<"February", " ", "1", "0">>,
     <<"-">>,
     <<"[", "3", "]">> >>

\* a row whose "Peak" cell holds no digit
RowNoPeak ==
  << <<"February", " ", "3">>,
     <<"\"", "D", "\"", "E", "\"">>,
     <<"Z">>,
     <<"-">>,
     <<"February", " ", "1", "0">>,
     <<"7">>,
     <<"[", "4", "]">> >>

DataRows == {RowA, RowB, RowNoWeeks, RowNoPeak}

RowPool == DataRows \cup {MarkerRow(y) : y \in PageYears}

\* the columns of a page's table: the pages of the earliest year have no Ref column
Columns(y) == IF \A z \in PageYears : y <= z THEN 6 ELSE 7

\* the tables of n columns with at most r rows; a wikitable listing has rows
Tables(n, r) ==
  {[k \in 1..Len(t) |-> SubSeq(t[k], 1, n)] : t \in SeqsUpTo(RowPool, r) \ {<<>>}}

(***************************************************************************)
(* scrape_data's per-page steps as operators.                              *)
(***************************************************************************)
\* int(url[-4:]): None when int() raises ValueError
UrlYear(url) ==
  LET tail == SubSeq(url, Len(url) - 3, Len(url))
  IN IF Len(url) >= 4 /\ AllDigits(tail) THEN Some(ToInt(tail)) ELSE None

\* Series.str.contains(r"Singles from \d{4}") on one cell
HasSentinel(cell) ==
  \E p \in 1..(Len(cell) - 4) :
     /\ cell[p] = "Singles from "
     /\ \A k \in 1..4 : IsDigit(cell[p + k])

\* row.astype(str) of a raw row: its cells, "None" for an added Ref, "<NA>" for Year
RowStrings(cells) ==
  cells \o (IF Len(cells) = 6 THEN << <<"None">> >> ELSE <<>>) \o << <<"<NA>">> >>

\* the mask's lambda: does any cell of the row hold the sentinel pattern
IsSentinelRow(cells) ==
  \E k \in 1..Len(RowStrings(cells)) : HasSentinel(RowStrings(cells)[k])

\* int(re.search(r"\d{4}", " ".join(row.astype(str))).group())
SentinelYear(cells) ==
  LET text == Join(RowStrings(cells), <<" ">>)
      hits == {p \in 1..(Len(text) - 3) : \A k \in 0..3 : IsDigit(text[p + k])}
  IN ToInt(SubSeq(text, Min(hits), Min(hits) + 3))

Mask(t) == [k \in 1..Len(t) |-> IsSentinelRow(t[k])]

\* FFill left out: the column as it is
FFillNone(col) == col

\* Series.ffill(): a missing value takes the last value before it, if any
RECURSIVE FFill(_)
FFill(col) ==
  IF col = <<>> THEN col
  ELSE LET front == FFill(SubSeq(col, 1, Len(col) - 1))
           last == col[Len(col)]
       IN Append(front,
                 IF last # None \/ front = <<>> THEN last ELSE front[Len(front)])

\* YearColumn without the branch of line 96: the sentinel branch always
YearColumnNoDefault(t, y) ==
  FFill([k \in 1..Len(t) |->
           IF Mask(t)[k] THEN Some(SentinelYear(t[k])) ELSE None])

\* lines 85-106: the Year column of the page's table
YearColumn(t, y) ==
  LET mask == Mask(t)
  IN IF \A k \in 1..Len(t) : ~mask[k]
     THEN FFill([k \in 1..Len(t) |-> Some(y)])
     ELSE FFill([k \in 1..Len(t) |->
                   IF mask[k] THEN Some(SentinelYear(t[k])) ELSE None])

\* DropMasked without the drop
KeepMasked(rows, mask) == rows

\* df[~mask]: the rows whose mask entry is false, in order
RECURSIVE DropMasked(_, _)
DropMasked(rows, mask) ==
  IF rows = <<>> THEN <<>>
  ELSE (IF mask[1] THEN <<>> ELSE <<rows[1]>>) \o DropMasked(Tail(rows), Tail(mask))

\* lines 80-109: Ref, Year, the sentinel logic, forward fill, drop
ResolveSentinels(t, y) ==
  LET col == YearColumn(t, y)
  IN DropMasked([k \in 1..Len(t) |-> [cells |-> t[k], Year |-> col[k]]], Mask(t))

Months == {"January", "February"}

\* pd.to_datetime(text, errors='coerce') on the texts the model builds: the text
\* "<month> <day> <4-digit year>" is that date, every other text is NaT
ToDatetime(text) ==
  LET sp == Positions(text, " ")
  IN IF /\ Cardinality(sp) = 2
        /\ Min(sp) = 2
        /\ text[1] \in Months
        /\ Max(sp) \in {4, 5}
        /\ AllDigits(SubSeq(text, 3, Max(sp) - 1))
        /\ Len(text) = Max(sp) + 4
        /\ AllDigits(SubSeq(text, Max(sp) + 1, Len(text)))
     THEN Some([month |-> text[1],
                day |-> ToInt(SubSeq(text, 3, Max(sp) - 1)),
                year |-> ToInt(SubSeq(text, Max(sp) + 1, Len(text)))])
     ELSE None

\* lines 116-120 and 125-129: parentheses, citation brackets and outer blanks removed
CleanDate(cell) == Strip(RemoveCitations(RemoveParens(cell)))

\* Series.astype(str) of the Year column
YearStr(y) == IF y = None THEN <<"<NA>">> ELSE ToStr(y[1])

\* PeakDate built like EntryDate, from the row's Year
PeakDateFromRowYear(r, y) ==
  ToDatetime(CleanDate(r.cells[5]) \o <<" ">> \o YearStr(r.Year))

\* line 121: the page's URL year is appended
PeakDate(r, y) == ToDatetime(CleanDate(r.cells[5]) \o <<" ">> \o ToStr(y))

\* line 130: the row's Year is appended
EntryDate(r) == ToDatetime(CleanDate(r.cells[1]) \o <<" ">> \o YearStr(r.Year))

\* line 134
SingleName(cell) == StrGet1(Split(cell))

\* lines 136 and 140: the digits kept of a numeric cell, NaN when there are none
Weeks(r) == ExtractDigits(r.cells[6])
Peak(r) == ExtractDigits(r.cells[4])

\* lines 137 and 141: astype(int) raises ValueError when the column holds a NaN
AstypeIntRaises(rows) ==
  \E k \in 1..Len(rows) : Weeks(rows[k]) = None \/ Peak(rows[k]) = None

\* lines 112-141 on one row of a page whose URL year is y
NormalizeRow(r, y) ==
  [TopTenEntryDate |-> EntryDate(r),
   SingleName |-> SingleName(r.cells[2]),
   Artists |-> r.cells[3],
   Peak |-> ToInt(Peak(r)[1]),
   PeakDate |-> PeakDate(r, y),
   WeeksInTopTen |-> ToInt(Weeks(r)[1]),
   Ref |-> IF Len(r.cells) = 6 THEN None ELSE Some(r.cells[7]),
   Year |-> r.Year]

NormalizeFrame(rows, y) == [k \in 1..Len(rows) |-> NormalizeRow(rows[k], y)]

\* Concat followed by drop_duplicates()
RECURSIVE ConcatUnique(_)
ConcatUnique(frames) ==
  IF frames = <<>> THEN <<>>
  ELSE LET front == ConcatUnique(SubSeq(frames, 1, Len(frames) - 1))
           seen == {front[k] : k \in 1..Len(front)}
           last == frames[Len(frames)]
           Fresh(e) == e \notin seen
       IN front \o SelectSeq(last, Fresh)

\* line 146: pd.concat(all_data, ignore_index=True), DataFrame() for no frames
RECURSIVE Concat(_)
Concat(frames) ==
  IF frames = <<>> THEN <<>> ELSE frames[1] \o Concat(Tail(frames))

(***************************************************************************)
(* The run.                                                                *)
(***************************************************************************)
Init ==
  /\ pc = "start"
  /\ caller = "none"
  /\ urls = None
  /\ i = 1
  /\ year = 0
  /\ table = <<>>
  /\ df = <<>>
  /\ all_data = <<>>
  /\ result = None
  /\ saved = "not_called"
  /\ file = None
  /\ fetchLog = <<>>
  /\ exc = None
  /\ rowsServed = 0

Raise(e) == pc' = "raised" /\ exc' = Some(e)

\* raise_for_status left out
NeverRaises(ok) == FALSE

\* response.raise_for_status() of a response with status `ok`: does it raise
RaiseForStatus(ok) == ~ok

\* main, line 177: get_links(BASE_URL), whose result is handed to scrape_data
GetLinks ==
  /\ pc = "start"
  /\ caller' = "main"
  /\ \E ok \in BOOLEAN :
       /\ fetchLog' = Append(fetchLog, [url |-> BASE_URL, ok |-> ok])
       /\ \/ /\ RaiseForStatus(ok)
             /\ Raise("HTTPError")
             /\ UNCHANGED urls
          \/ /\ ~RaiseForStatus(ok)
             /\ \E links \in {l \in UrlLists : IsInjective(l)} : urls' = Some(links)
             /\ pc' = "loop"
             /\ UNCHANGED exc
  /\ UNCHANGED <<i, year, table, df, all_data, result, saved, file, rowsServed>>

\* scrape_data called by another caller: urls is None (the default), the empty list,
\* or what main never passes, a list that repeats a URL
CallScrapeData ==
  /\ pc = "start"
  /\ caller' = "direct"
  /\ \E u \in {None} \cup {Some(l) : l \in {x \in UrlLists : x = <<>> \/ ~IsInjective(x)}} :
       urls' = u
  /\ pc' = "loop"
  /\ UNCHANGED <<i, year, table, df, all_data, result, saved, file, fetchLog, exc,
                 rowsServed>>

\* line 60 with urls = None: iterating None raises TypeError
IterateNone ==
  /\ pc = "loop"
  /\ urls = None
  /\ Raise("TypeError")
  /\ UNCHANGED <<caller, urls, i, year, table, df, all_data, result, saved, file,
                 fetchLog, rowsServed>>

\* lines 60-109 for the next url: fetch, find the table, the URL year, read_html,
\* then the sentinel logic on the table read
FetchPage ==
  /\ pc = "loop"
  /\ urls # None
  /\ i <= Len(urls[1])
  /\ LET url == urls[1][i] IN
     \E ok \in BOOLEAN :
       /\ fetchLog' = Append(fetchLog, [url |-> url, ok |-> ok])
       /\ \/ /\ RaiseForStatus(ok)
             /\ Raise("HTTPError")
             /\ UNCHANGED <<year, table, df, rowsServed>>
          \/ /\ ~RaiseForStatus(ok)
             \* soup.find gave None: table.find_all raises
             /\ Raise("AttributeError")
             /\ UNCHANGED <<year, table, df, rowsServed>>
          \/ /\ ~RaiseForStatus(ok)
             /\ UrlYear(url) = None
             /\ Raise("ValueError")
             /\ UNCHANGED <<year, table, df, rowsServed>>
          \/ /\ ~RaiseForStatus(ok)
             /\ UrlYear(url) # None
             /\ year' = UrlYear(url)[1]
             /\ \E t \in Tables(Columns(UrlYear(url)[1]), MaxRows - rowsServed) :
                  /\ table' = t
                  /\ df' = ResolveSentinels(t, UrlYear(url)[1])
                  /\ rowsServed' = rowsServed + Len(t)
             /\ pc' = "resolved"
             /\ UNCHANGED exc
  /\ UNCHANGED <<caller, urls, i, all_data, result, saved, file>>

\* lines 111-141
Normalize ==
  /\ pc = "resolved"
  /\ \/ /\ AstypeIntRaises(df)
        /\ Raise("ValueError")
        /\ UNCHANGED df
     \/ /\ ~AstypeIntRaises(df)
        /\ df' = NormalizeFrame(df, year)
        /\ pc' = "normalized"
        /\ UNCHANGED exc
  /\ UNCHANGED <<caller, urls, i, year, table, all_data, result, saved, file,
                 fetchLog, rowsServed>>

\* lines 143-144: the page's frame joins all_data; the sleep changes no state
AppendPage ==
  /\ pc = "normalized"
  /\ all_data' = Append(all_data, df)
  /\ i' = i + 1
  /\ pc' = "loop"
  /\ UNCHANGED <<caller, urls, year, table, df, result, saved, file, fetchLog, exc,
                 rowsServed>>

\* line 146, after the last url
Return ==
  /\ pc = "loop"
  /\ urls # None
  /\ i > Len(urls[1])
  /\ result' = Some(Concat(all_data))
  /\ pc' = IF caller = "main" THEN "returned" ELSE "done"
  /\ UNCHANGED <<caller, urls, i, year, table, df, all_data, saved, file, fetchLog,
                 exc, rowsServed>>

\* main, line 179: save_to_csv(data)
SaveToCsv ==
  /\ pc = "returned"
  /\ IF result[1] = <<>>
     THEN saved' = "no_data" /\ UNCHANGED file
     ELSE saved' = "written" /\ file' = result
  /\ pc' = "done"
  /\ UNCHANGED <<caller, urls, i, year, table, df, all_data, result, fetchLog, exc,
                 rowsServed>>

Next ==
  \/ GetLinks
  \/ CallScrapeData
  \/ IterateNone
  \/ FetchPage
  \/ Normalize
  \/ AppendPage
  \/ Return
  \/ SaveToCsv

Spec == Init /\ [][Next]_vars

(***************************************************************************)
(* The Single Name rule on every short cell: the run starts after a page   *)
(* with one row was read, the row's Single Name cell drawn from all texts  *)
(* of at most MaxCellLen tokens.                                           *)
(***************************************************************************)
CellAlphabet == {"\"", "A", " "}

CellRow(c) == [RowA EXCEPT ![2] = c]

InitCell ==
  /\ pc = "resolved"
  /\ caller = "main"
  /\ urls = Some(<<PageUrl(2024)>>)
  /\ i = 1
  /\ year = 2024
  /\ \E c \in SeqsUpTo(CellAlphabet, MaxCellLen) :
       /\ table = <<CellRow(c)>>
       /\ df = ResolveSentinels(<<CellRow(c)>>, 2024)
  /\ all_data = <<>>
  /\ result = None
  /\ saved = "not_called"
  /\ file = None
  /\ fetchLog = <<[url |-> BASE_URL, ok |-> TRUE], [url |-> PageUrl(2024), ok |-> TRUE]>>
  /\ exc = None
  /\ rowsServed = 1

NextCell ==
  \/ Normalize
  \/ AppendPage
  \/ Return
  \/ SaveToCsv

SpecCell == InitCell /\ [][NextCell]_vars

(***************************************************************************)
(* Definitions the properties share.                                       *)
(***************************************************************************)
\* the page being processed has its table and its frame in `table` and `df`
PageInHand == pc \in {"resolved", "normalized"}

IsDataRow(cells) == ~IsSentinelRow(cells)

MarkersBefore(k) == {j \in 1..(k - 1) : IsSentinelRow(table[j])}

\* the place in df of the table's k-th row, a data row
FrameIndex(k) == Cardinality({j \in 1..k : IsDataRow(table[j])})

\* the year written after "Singles from " in a marker row
EmbeddedYear(cells) ==
  LET c == cells[Min({k \in 1..Len(cells) : HasSentinel(cells[k])})]
      p == Min({q \in 1..(Len(c) - 4) :
                  c[q] = "Singles from " /\ AllDigits(SubSeq(c, q + 1, q + 4))})
  IN ToInt(SubSeq(c, p + 1, p + 4))

\* the last four characters of the URL of the page being processed, and their number
UrlTail == SubSeq(urls[1][i], Len(urls[1][i]) - 3, Len(urls[1][i]))
UrlTailYear == ToInt(UrlTail)

ScrapeDataCalled == caller = "direct" \/ (caller = "main" /\ urls # None)

\* C1: every entry of a dataset scrape_data returns has a Year, whatever the order of
\* data rows and marker rows in the pages' tables.
C1_YearNeverNull ==
  result # None => \A k \in 1..Len(result[1]) : result[1][k].Year # None

\* C2: a data row that has a marker row before it gets the year written in the nearest
\* marker row before it; a later marker overrides an earlier one.
C2_NearestMarkerYear ==
  PageInHand =>
    \A k \in 1..Len(table) :
       (IsDataRow(table[k]) /\ MarkersBefore(k) # {}) =>
          df[FrameIndex(k)].Year = Some(EmbeddedYear(table[Max(MarkersBefore(k))]))

\* a data row stands after two markers of different years
C2_Witness ==
  /\ pc = "resolved"
  /\ \E k \in 1..Len(table) : \E a, b \in MarkersBefore(k) :
       /\ IsDataRow(table[k])
       /\ a < b
       /\ EmbeddedYear(table[a]) # EmbeddedYear(table[b])
       /\ EmbeddedYear(table[b]) # year

\* C3: on a page without marker rows every entry's Year is the number in the last four
\* characters of the page's URL.
C3_UrlYearWithoutMarkers ==
  (PageInHand /\ \A k \in 1..Len(table) : IsDataRow(table[k])) =>
     /\ Len(df) = Len(table)
     /\ \A k \in 1..Len(df) : df[k].Year = Some(UrlTailYear)

\* pages of both years were read without markers
C3_Witness ==
  /\ pc = "normalized"
  /\ i = 2
  /\ Len(df) >= 1
  /\ \A k \in 1..Len(table) : IsDataRow(table[k])
  /\ Len(all_data[1]) >= 1
  /\ all_data[1][1].Year # df[1].Year

\* C4: no marker row is in the dataset; the rows classified as markers are removed
\* before normalization and the other rows are all kept, in their order.
C4_MarkersDropped ==
  LET kept == SelectSeq(table, IsDataRow)
  IN /\ pc = "resolved" => [k \in 1..Len(df) |-> df[k].cells] = kept
     /\ pc = "normalized" =>
          [k \in 1..Len(df) |-> df[k].Artists] = [k \in 1..Len(kept) |-> kept[k][3]]
     /\ result # None =>
          \A k \in 1..Len(result[1]) : ~HasSentinel(result[1][k].Artists)

\* a marker stood between two different data rows
C4_Witness ==
  /\ pc = "normalized"
  /\ Len(table) = 3
  /\ IsSentinelRow(table[2])
  /\ Len(df) = 2
  /\ df[1].Artists # df[2].Artists

\* the frames of all_data laid end to end, from the last frame backwards
RECURSIVE EndToEnd(_)
EndToEnd(frames) ==
  IF frames = <<>> THEN <<>>
  ELSE EndToEnd(SubSeq(frames, 1, Len(frames) - 1)) \o frames[Len(frames)]

\* C5: the dataset is the pages' frames laid end to end in the order of urls: each
\* page's frame is added once, whole, after the frames of the urls before it, and the
\* returned dataset keeps every row of every frame, repeated rows included.
C5_ConcatInOrder ==
  [][/\ all_data' # all_data =>
          /\ pc = "normalized"
          /\ fetchLog[Len(fetchLog)].url = urls[1][i]
          /\ Len(all_data) = i - 1
          /\ all_data' = all_data \o <<df>>
          /\ i' = i + 1
     /\ result' # result =>
          /\ i = Len(urls[1]) + 1
          /\ Len(all_data) = Len(urls[1])
          /\ result' = Some(EndToEnd(all_data))]_vars

\* two pages gave the same entry, and the dataset holds it twice
C5_Witness ==
  /\ result # None
  /\ Len(all_data) = 2
  /\ Len(all_data[1]) = 2
  /\ Len(all_data[2]) = 1
  /\ all_data[1][1] # all_data[1][2]
  /\ all_data[1][2] = all_data[2][1]
  /\ Len(result[1]) = 3

HasDigit(cell) == \E k \in 1..Len(cell) : IsDigit(cell[k])

\* C6: a data row whose Weeks in Top Ten or Peak cell has no digit makes the page fail
\* with a conversion error: the page's frame is not normalized with a number in its
\* place, and nothing of the run is returned or saved.
C6_NoDigitsAborts ==
  /\ pc = "normalized" =>
       \A k \in 1..Len(table) :
          IsDataRow(table[k]) => HasDigit(table[k][6]) /\ HasDigit(table[k][4])
  /\ (pc = "raised" /\ exc = Some("ValueError") /\ UrlYear(urls[1][i]) # None) =>
       /\ \E k \in 1..Len(table) :
            IsDataRow(table[k]) /\ ~(HasDigit(table[k][6]) /\ HasDigit(table[k][4]))
       /\ Len(all_data) = i - 1
       /\ result = None
       /\ saved = "not_called"
       /\ file = None

\* the second page failed on a row with digits in Weeks and none in Peak
C6_Witness ==
  /\ pc = "raised"
  /\ exc = Some("ValueError")
  /\ Len(all_data) = 1
  /\ Len(all_data[1]) >= 1
  /\ \E k \in 1..Len(table) : IsDataRow(table[k]) /\ ~HasDigit(table[k][4])
  /\ \A k \in 1..Len(table) : HasDigit(table[k][6])

\* C7: a fetch that fails ends the run: it is the last fetch, the exception is what
\* the run ends with, nothing is returned and save_to_csv is not called.
C7_FetchFailFast ==
  \A k \in 1..Len(fetchLog) :
     ~fetchLog[k].ok =>
        /\ k = Len(fetchLog)
        /\ pc = "raised"
        /\ exc = Some("HTTPError")
        /\ ~ENABLED Next
        /\ result = None
        /\ saved = "not_called"
        /\ file = None

\* a listing page's fetch failed after an earlier page was scraped
C7_Witness ==
  /\ caller = "main"
  /\ Len(fetchLog) = 3
  /\ ~fetchLog[3].ok
  /\ Len(all_data) = 1
  /\ Len(all_data[1]) >= 1

\* C8: scrape_data called with urls = None or with an empty list returns an empty
\* DataFrame and does not raise.
C8_NoUrlsReturnsEmpty ==
  (ScrapeDataCalled /\ (urls = None \/ urls = Some(<<>>)) /\ pc \notin {"start", "loop"}) =>
     result = Some(<<>>) /\ exc = None

\* C9 as claimed: a Peak Date that is not null has the entry's Year as its year (said
\* here of the entries that have a Year).
C9_PeakDateYearIsRowYear ==
  pc = "normalized" =>
     \A k \in 1..Len(df) :
        (df[k].PeakDate # None /\ df[k].Year # None) =>
           Some(df[k].PeakDate[1].year) = df[k].Year

\* C9, amended: Peak Date is the date read from the cleaned month-day text followed by
\* the last four characters of the page's URL, so a Peak Date that is not null has the
\* URL's year, also where a marker gave the entry another Year.
C9_PeakDateYearIsUrlYear ==
  pc = "normalized" =>
     LET kept == SelectSeq(table, IsDataRow)
     IN \A k \in 1..Len(df) :
           /\ df[k].PeakDate = ToDatetime(CleanDate(kept[k][5]) \o <<" ">> \o UrlTail)
           /\ df[k].PeakDate # None => df[k].PeakDate[1].year = UrlTailYear

\* an entry that a marker gave another Year than the URL's has a Peak Date
C9_Witness ==
  /\ pc = "normalized"
  /\ \E k \in 1..Len(df) :
       /\ df[k].PeakDate # None
       /\ df[k].Year # None
       /\ df[k].Year # Some(UrlTailYear)

\* the raw Single Name cell of SpecCell's page, and where its double quotes are
RawCell == table[1][2]
Quotes == Positions(RawCell, "\"")
FirstQuote == Min(Quotes)
SecondQuote == Min(Quotes \ {FirstQuote})

\* C10 as claimed: Single Name is the text between the first and the second double
\* quote, null for a cell with fewer than two double quotes, and the row is kept.
C10_SingleNameBetweenQuotes ==
  pc = "normalized" =>
     /\ Len(df) = 1
     /\ df[1].SingleName =
          IF Cardinality(Quotes) >= 2
          THEN Some(SubSeq(RawCell, FirstQuote + 1, SecondQuote - 1))
          ELSE None

\* C10, amended: Single Name is the text between the first and the second double
\* quote; for a cell with exactly one double quote it is the text after that quote;
\* for a cell with none it is null; the row is kept, with its other fields.
C10_SingleNameSplit ==
  /\ pc = "normalized" =>
       /\ Len(df) = 1
       /\ df[1].SingleName =
            IF Cardinality(Quotes) >= 2
            THEN Some(SubSeq(RawCell, FirstQuote + 1, SecondQuote - 1))
            ELSE IF Cardinality(Quotes) = 1
            THEN Some(SubSeq(RawCell, FirstQuote + 1, Len(RawCell)))
            ELSE None
       /\ df[1].Artists = table[1][3]
  /\ pc = "done" => Len(file[1]) = 1 /\ file[1] = df

\* a cell with one double quote and text after it was normalized and saved
C10_Witness ==
  /\ pc = "done"
  /\ Cardinality(Quotes) = 1
  /\ FirstQuote < Len(RawCell)
  /\ file[1][1].SingleName # None

====
